---------------------------- MODULE Spec2Model ----------------------------
(***************************************************************************)
(* Model of the trampoline platformer prototype (src/trampoline/game.js):  *)
(* the entity classes, the per-frame input/physics/collision loop of Game, *)
(* the localStorage level store, and the level editor's place/erase logic. *)
(*                                                                         *)
(* Numbers.  The program computes with JavaScript doubles.  Every length   *)
(* and velocity of the model is an integer count of TENTHS of a pixel, so  *)
(* that gravity 0.8, half of a 15 px platform (7.5) and the squashed       *)
(* trampoline (144 x 16) are exact.  The one inexact step is friction      *)
(* (vx *= 0.8), which is truncated towards zero to a tenth of a pixel.     *)
(*                                                                         *)
(* Rendering library.  getBounds() of a sprite anchored at its centre is   *)
(* the texture size times the scale, centred on (x, y).  No gamepad is     *)
(* connected (Game.gamepad = null), so the gamepad queries are all false.  *)
(***************************************************************************)
EXTENDS Integers, Sequences, FiniteSets, TLC

VARIABLES
    platforms,         \* Game.platforms: the live entity sequence
    player,            \* Game.player (Catfox): x, y, vx, vy, onGround
    playerStartPos,    \* Game.playerStartPos
    currentLevelName,  \* Game.currentLevelName (NoName = null)
    levels,            \* localStorage 'trampolineLevels', in key order
    lastLevel,         \* localStorage 'trampolineLastLevel' (NoName = null)
    keys,              \* Game.keys: the held keys
    lastKeys,          \* Game.lastKeys: the keys held at the previous frame
    isEnabled,         \* LevelEditor.isEnabled
    selectedTool,      \* LevelEditor.selectedTool
    booted,            \* Game.init has run loadInitialLevel
    refs,              \* the identity of each object of Game.platforms
    stage,             \* app.stage: identities of the attached entities
    timers,            \* pending bounce timers of entities no longer live
    lastOp,            \* history: the last operation, its argument and result
    trace,             \* history: the phases of the last gameLoop frame
    fires,             \* history: per held one-shot key, frames and firings
    budget             \* history: frames and events left to explore

vars == <<platforms, player, playerStartPos, currentLevelName, levels,
          lastLevel, keys, lastKeys, isEnabled, selectedTool, booted,
          refs, stage, timers, lastOp, trace, fires, budget>>

----------------------------------------------------------------------------
(* Program constants, in tenths of a pixel (per frame for velocities).     *)

screenWidth == 8000
screenHeight == 6000
groundHeight == 1000
fallMargin == 1000
gravity == 8
jumpForce == -150
playerSpeed == 50
playerSize == 400
playerInitX == 1000
playerInitY == 1000
defaultBounce == -150
trampolineBounce == -200
trampolineWidth == 1200
trampolineHeight == 200
defaultSolidWidth == 1200
defaultSolidHeight == 200
starWidth == 280
starHeight == 290
startMarkerSize == 240
editorSolidWidth == 1000
editorSolidHeight == 150
probeSize == 100
opaque == 10
faded == 5

NoName == "<null>"

----------------------------------------------------------------------------
(* Entities.  cls is constructor.name; w, h are platformWidth and          *)
(* platformHeight (0 where the class does not define them); collected is   *)
(* FALSE where the class does not define it; alpha is in tenths; squashed  *)
(* is scale (1.2, 0.8), as against the original scale (1, 1).              *)

Platform(cls, x, y) ==
    [cls |-> cls, x |-> x, y |-> y, w |-> 0, h |-> 0,
     bounceForce |-> defaultBounce, collected |-> FALSE, alpha |-> opaque,
     squashed |-> FALSE]

Trampoline(x, y, bounceForce) ==
    [Platform("Trampoline", x, y) EXCEPT !.bounceForce = bounceForce]

SolidPlatform(x, y, width, height) ==
    [Platform("SolidPlatform", x, y) EXCEPT !.w = width, !.h = height]

Star(x, y) == Platform("Star", x, y)

PlayerStart(x, y) == Platform("PlayerStart", x, y)

platformType(e) ==
    CASE e.cls = "SolidPlatform" -> "solid"
      [] e.cls = "Trampoline"    -> "trampoline"
      [] e.cls = "Star"          -> "star"
      [] OTHER                   -> "playerStart"

(* The texture each constructor draws, scaled by the sprite's scale.       *)
SpriteWidth(e) ==
    CASE e.cls = "SolidPlatform" -> e.w
      [] e.cls = "Trampoline"    ->
            IF e.squashed THEN (trampolineWidth * 12) \div 10 ELSE trampolineWidth
      [] e.cls = "Star"          -> starWidth
      [] OTHER                   -> startMarkerSize

SpriteHeight(e) ==
    CASE e.cls = "SolidPlatform" -> e.h
      [] e.cls = "Trampoline"    ->
            IF e.squashed THEN (trampolineHeight * 8) \div 10 ELSE trampolineHeight
      [] e.cls = "Star"          -> starHeight
      [] OTHER                   -> startMarkerSize

(* getBounds() of an entity: anchor 0.5, so the box is centred on (x, y).  *)
GetBounds(e) ==
    [x |-> e.x - SpriteWidth(e) \div 2, y |-> e.y - SpriteHeight(e) \div 2,
     width |-> SpriteWidth(e), height |-> SpriteHeight(e)]

(* getBounds() of the player: a 40 x 40 sprite anchored at its centre.     *)
PlayerBounds(p) ==
    [x |-> p.x - playerSize \div 2, y |-> p.y - playerSize \div 2,
     width |-> playerSize, height |-> playerSize]

(* A standing-on test swept over the frame's fall: the bottom edge was     *)
(* above the target's bottom edge before the frame and is below its top    *)
(* edge after it.                                                          *)
isStandingOn_Swept(p, target) ==
    LET pb == PlayerBounds(p) IN
    /\ pb.x < target.x + target.width
    /\ pb.x + pb.width > target.x
    /\ pb.y + pb.height - p.vy < target.y + target.height
    /\ pb.y + pb.height > target.y

(* A standing-on test that accepts any overlap of the two boxes.           *)
isStandingOn_Overlap(p, target) ==
    LET pb == PlayerBounds(p) IN
    /\ pb.x < target.x + target.width
    /\ pb.x + pb.width > target.x
    /\ pb.y < target.y + target.height
    /\ pb.y + pb.height > target.y

isStandingOn(p, target) ==
    LET pb == PlayerBounds(p) IN
    /\ pb.x < target.x + target.width
    /\ pb.x + pb.width > target.x
    /\ pb.y + pb.height < target.y + target.height
    /\ pb.y + pb.height > target.y

isIntersecting(p, target) ==
    LET pb == PlayerBounds(p) IN
    /\ pb.x < target.x + target.width
    /\ pb.x + pb.width > target.x
    /\ pb.y < target.y + target.height
    /\ pb.y + pb.height > target.y

----------------------------------------------------------------------------
(* Collision responses: each yields the player and the entity afterwards.  *)

(* A solid response that forgets to mark the player as on the ground.     *)
SolidPlatform_onPlayerCollision_NoGround(e, p) ==
    [player |-> [p EXCEPT !.vy = 0,
                          !.y = GetBounds(e).y - playerSize \div 2],
     entity |-> e]

SolidPlatform_onPlayerCollision(e, p) ==
    [player |-> [p EXCEPT !.vy = 0,
                          !.y = GetBounds(e).y - playerSize \div 2,
                          !.onGround = TRUE],
     entity |-> e]

(* A trampoline response that takes the character off the ground.         *)
Trampoline_onPlayerCollision_TakeOff(e, p) ==
    [player |-> [p EXCEPT !.vy = e.bounceForce,
                          !.y = GetBounds(e).y - playerSize \div 2,
                          !.onGround = FALSE],
     entity |-> [e EXCEPT !.squashed = TRUE]]

(* A trampoline response without the bounce animation.                    *)
Trampoline_onPlayerCollision_NoAnimation(e, p) ==
    [player |-> [p EXCEPT !.vy = e.bounceForce,
                          !.y = GetBounds(e).y - playerSize \div 2],
     entity |-> e]

(* A trampoline response that adds the bounce to the falling speed.       *)
Trampoline_onPlayerCollision_Add(e, p) ==
    [player |-> [p EXCEPT !.vy = p.vy + e.bounceForce,
                          !.y = GetBounds(e).y - playerSize \div 2],
     entity |-> [e EXCEPT !.squashed = TRUE]]

Trampoline_onPlayerCollision(e, p) ==
    [player |-> [p EXCEPT !.vy = e.bounceForce,
                          !.y = GetBounds(e).y - playerSize \div 2],
     entity |-> [e EXCEPT !.squashed = TRUE]]

(* A star response that toggles the flag on every collision.              *)
Star_onPlayerCollision_Toggle(e, p) ==
    [player |-> p,
     entity |-> IF ~e.collected
                THEN [e EXCEPT !.collected = TRUE, !.alpha = faded]
                ELSE [e EXCEPT !.collected = FALSE, !.alpha = opaque]]

Star_onPlayerCollision(e, p) ==
    [player |-> p,
     entity |-> IF ~e.collected
                THEN [e EXCEPT !.collected = TRUE, !.alpha = faded]
                ELSE e]

PlayerStart_onPlayerCollision(e, p) == [player |-> p, entity |-> e]

onPlayerCollision(e, p) ==
    CASE e.cls = "SolidPlatform" -> SolidPlatform_onPlayerCollision(e, p)
      [] e.cls = "Trampoline"    -> Trampoline_onPlayerCollision(e, p)
      [] e.cls = "Star"          -> Star_onPlayerCollision(e, p)
      [] OTHER                   -> PlayerStart_onPlayerCollision(e, p)

(* A collision loop whose break leaves the scan at the first solid or      *)
(* trampoline met while falling, stood on or not.                          *)
RECURSIVE CollisionLoop_BreakAlways(_, _, _, _)
CollisionLoop_BreakAlways(i, p, plats, stars) ==
    IF i > Len(plats)
    THEN [player |-> p, platforms |-> plats, hit |-> 0,
          hitBounds |-> GetBounds(Platform("none", 0, 0)), stars |-> stars]
    ELSE LET e == plats[i]
             platformBounds == GetBounds(e)
             r == onPlayerCollision(e, p)
         IN  IF platformType(e) = "star"
             THEN IF isIntersecting(p, platformBounds)
                  THEN CollisionLoop_BreakAlways(i + 1, r.player,
                                                 [plats EXCEPT ![i] = r.entity],
                                                 stars \cup {i})
                  ELSE CollisionLoop_BreakAlways(i + 1, p, plats, stars)
             ELSE IF platformType(e) = "playerStart"
             THEN CollisionLoop_BreakAlways(i + 1, p, plats, stars)
             ELSE IF p.vy > 0
             THEN IF isStandingOn(p, platformBounds)
                  THEN [player |-> r.player,
                        platforms |-> [plats EXCEPT ![i] = r.entity],
                        hit |-> i, hitBounds |-> platformBounds,
                        stars |-> stars]
                  ELSE [player |-> p, platforms |-> plats, hit |-> 0,
                        hitBounds |-> GetBounds(Platform("none", 0, 0)),
                        stars |-> stars]
             ELSE CollisionLoop_BreakAlways(i + 1, p, plats, stars)

(* The for-loop of checkPlatformCollisions from index i on.  hit is the    *)
(* index of the solid or trampoline whose response ended the loop (0 if    *)
(* none), hitBounds its box when it responded, stars the indices of the    *)
(* stars whose response was invoked.                                       *)
RECURSIVE CollisionLoop(_, _, _, _)
CollisionLoop(i, p, plats, stars) ==
    IF i > Len(plats)
    THEN [player |-> p, platforms |-> plats, hit |-> 0,
          hitBounds |-> GetBounds(Platform("none", 0, 0)), stars |-> stars]
    ELSE LET e == plats[i]
             platformBounds == GetBounds(e)
             r == onPlayerCollision(e, p)
         IN  IF platformType(e) = "star"
             THEN IF isIntersecting(p, platformBounds)
                  THEN CollisionLoop(i + 1, r.player,
                                     [plats EXCEPT ![i] = r.entity],
                                     stars \cup {i})
                  ELSE CollisionLoop(i + 1, p, plats, stars)
             ELSE IF platformType(e) = "playerStart"
             THEN CollisionLoop(i + 1, p, plats, stars)
             ELSE IF p.vy > 0 /\ isStandingOn(p, platformBounds)
             THEN [player |-> r.player,
                   platforms |-> [plats EXCEPT ![i] = r.entity],
                   hit |-> i, hitBounds |-> platformBounds, stars |-> stars]
             ELSE CollisionLoop(i + 1, p, plats, stars)

Reversed(plats) == [k \in 1..Len(plats) |-> plats[Len(plats) + 1 - k]]

(* A checkPlatformCollisions that scans the sequence from its end.         *)
checkPlatformCollisions_Reverse(p, plats) ==
    LET r == CollisionLoop(1, p, Reversed(plats), {})
        n == Len(plats)
    IN  [player |-> r.player, platforms |-> Reversed(r.platforms),
         hit |-> IF r.hit = 0 THEN 0 ELSE n + 1 - r.hit,
         hitBounds |-> r.hitBounds,
         stars |-> {n + 1 - i : i \in r.stars}]

checkPlatformCollisions(p, plats) == CollisionLoop(1, p, plats, {})

(* Array.find: the first playerStart entity, 0 if there is none.           *)
FirstPlayerStart(plats) ==
    LET S == {i \in 1..Len(plats) : platformType(plats[i]) = "playerStart"}
    IN  IF S = {} THEN 0 ELSE CHOOSE i \in S : \A j \in S : i <= j

(* A resetGame that ignores the playerStart entity.                        *)
resetGame_DefaultOnly(p, plats, startPos) ==
    [player |-> [x |-> startPos.x, y |-> startPos.y,
                 vx |-> 0, vy |-> 0, onGround |-> FALSE],
     platforms |-> [k \in 1..Len(plats) |->
                      IF platformType(plats[k]) = "star"
                      THEN [plats[k] EXCEPT !.collected = FALSE,
                                            !.alpha = opaque]
                      ELSE plats[k]]]

resetGame(p, plats, startPos) ==
    LET i == FirstPlayerStart(plats) IN
    [player |-> [x |-> IF i > 0 THEN plats[i].x ELSE startPos.x,
                 y |-> IF i > 0 THEN plats[i].y ELSE startPos.y,
                 vx |-> 0, vy |-> 0, onGround |-> FALSE],
     platforms |-> [k \in 1..Len(plats) |->
                      IF platformType(plats[k]) = "star"
                      THEN [plats[k] EXCEPT !.collected = FALSE,
                                            !.alpha = opaque]
                      ELSE plats[k]]]

groundY == screenHeight - groundHeight - playerSize \div 2

(* No ground clamp.                                                        *)
GroundClamp_Off(p) == p

(* A ground clamp that keeps the vertical velocity.                        *)
GroundClamp_KeepVy(p) ==
    IF p.y >= groundY
    THEN [p EXCEPT !.y = groundY, !.onGround = TRUE]
    ELSE p

GroundClamp(p) ==
    IF p.y >= groundY
    THEN [p EXCEPT !.y = groundY, !.vy = 0, !.onGround = TRUE]
    ELSE p

(* A horizontal clamp that also stops the horizontal motion.               *)
ScreenClamp_StopVx(p) ==
    IF p.x < playerSize \div 2
    THEN [p EXCEPT !.x = playerSize \div 2, !.vx = 0]
    ELSE IF p.x > screenWidth - playerSize \div 2
    THEN [p EXCEPT !.x = screenWidth - playerSize \div 2, !.vx = 0]
    ELSE p

ScreenClamp(p) ==
    IF p.x < playerSize \div 2
    THEN [p EXCEPT !.x = playerSize \div 2]
    ELSE IF p.x > screenWidth - playerSize \div 2
    THEN [p EXCEPT !.x = screenWidth - playerSize \div 2]
    ELSE p

Integrate(p) ==
    LET vy == p.vy + gravity IN
    [p EXCEPT !.vy = vy, !.x = p.x + p.vx, !.y = p.y + vy]

(* updatePhysics.  int and coll are the player after integration and      *)
(* after the entity collisions; reset tells whether resetGame ran.         *)
updatePhysics(p, plats, startPos) ==
    LET int   == Integrate(p)
        c     == checkPlatformCollisions(int, plats)
        q     == ScreenClamp(GroundClamp(c.player))
        reset == q.y > screenHeight + fallMargin
        r     == resetGame(q, c.platforms, startPos)
    IN  [player    |-> IF reset THEN r.player ELSE q,
         platforms |-> IF reset THEN r.platforms ELSE c.platforms,
         int |-> int, coll |-> c.player, hit |-> c.hit,
         hitBounds |-> c.hitBounds, stars |-> c.stars, reset |-> reset]

----------------------------------------------------------------------------
(* Input.  keys and lastKeys are the sets of key codes that are held.      *)

Friction(vx) == IF vx >= 0 THEN (vx * 8) \div 10 ELSE -(((-vx) * 8) \div 10)

(* A jump test without the onGround condition.                             *)
JumpHonored_Always(p, held) ==
    "KeyW" \in held \/ "ArrowUp" \in held \/ "Space" \in held

JumpHonored(p, held) ==
    ("KeyW" \in held \/ "ArrowUp" \in held \/ "Space" \in held) /\ p.onGround

(* handleInput up to the call of handlePlatformControls.                   *)
handleInput(p, held) ==
    LET moveLeft  == "KeyA" \in held \/ "ArrowLeft" \in held
        moveRight == "KeyD" \in held \/ "ArrowRight" \in held
        jump      == JumpHonored(p, held)
        q == [p EXCEPT !.vx = IF moveLeft THEN -playerSpeed
                              ELSE IF moveRight THEN playerSpeed
                              ELSE Friction(p.vx)]
    IN  IF jump THEN [q EXCEPT !.vy = jumpForce, !.onGround = FALSE] ELSE q

(* A key test without the comparison with the previous frame.              *)
KeyPressed_Held(code, held, before) == code \in held

KeyPressed(code, held, before) == code \in held /\ code \notin before

addPlatform(plats, e) == Append(plats, e)

(* removePlatform(index), index counted from 1.                            *)
removePlatform(plats, index) ==
    IF index >= 1 /\ index <= Len(plats)
    THEN [k \in 1..(Len(plats) - 1) |->
            IF k < index THEN plats[k] ELSE plats[k + 1]]
    ELSE plats

(* A clearAllPlatforms that leaves the array as it is.                     *)
clearAllPlatforms_Keep(plats) == plats

clearAllPlatforms(plats) == << >>

(* handlePlatformControls.  rt and rp are the Utils.random draws of the T  *)
(* and P commands, confirmed the answer to the confirm() dialog.           *)
handlePlatformControls(plats, enabled, held, before, rt, rp, confirmed) ==
    LET p1 == IF KeyPressed("KeyT", held, before)
              THEN addPlatform(plats, Trampoline(rt.x, rt.y, rt.bounceForce))
              ELSE plats
        p2 == IF KeyPressed("KeyP", held, before)
              THEN addPlatform(p1, SolidPlatform(rp.x, rp.y, rp.width,
                                                 editorSolidHeight))
              ELSE p1
        p3 == IF KeyPressed("KeyR", held, before) /\ Len(p2) > 0
              THEN removePlatform(p2, Len(p2))
              ELSE p2
        en == IF KeyPressed("KeyE", held, before) THEN ~enabled ELSE enabled
        p4 == IF KeyPressed("KeyC", held, before) /\ confirmed
              THEN clearAllPlatforms(p3)
              ELSE p3
    IN  [platforms |-> p4, isEnabled |-> en]

----------------------------------------------------------------------------
(* Level store.  A stored entity record has the fields saveLevel writes;   *)
(* a stored number that is null or 0 is 0 (every read of these fields is   *)
(* value || default, which treats the two alike).  levels is the parsed    *)
(* 'trampolineLevels' object as the sequence of its values in key order.   *)
(* io tells what the storage does in one handler: io.read,                 *)
(* getItem('trampolineLevels') answers and parses; io.readLast,            *)
(* getItem('trampolineLastLevel') answers; io.write,                       *)
(* setItem('trampolineLevels') succeeds; io.last,                          *)
(* setItem('trampolineLastLevel') succeeds.                                *)

(* A saveLevel that forgets the collected flag.                            *)
Serialize_NoCollected(e) ==
    [type |-> e.cls, x |-> e.x, y |-> e.y,
     width  |-> IF e.w # 0 THEN e.w ELSE GetBounds(e).width,
     height |-> IF e.h # 0 THEN e.h ELSE GetBounds(e).height,
     bounceForce |-> e.bounceForce,
     collected |-> FALSE]

Serialize(e) ==
    [type |-> e.cls, x |-> e.x, y |-> e.y,
     width  |-> IF e.w # 0 THEN e.w ELSE GetBounds(e).width,
     height |-> IF e.h # 0 THEN e.h ELSE GetBounds(e).height,
     bounceForce |-> e.bounceForce,
     collected |-> e.collected]

(* A saveLevel that writes the start marker's position as the start.      *)
LevelData_FollowMarker(levelName, plats, startPos) ==
    [name |-> levelName,
     platforms |-> [k \in 1..Len(plats) |-> Serialize(plats[k])],
     playerStart |-> IF FirstPlayerStart(plats) > 0
                     THEN [x |-> plats[FirstPlayerStart(plats)].x,
                           y |-> plats[FirstPlayerStart(plats)].y]
                     ELSE startPos,
     hasPlayerStart |-> TRUE]

LevelData(levelName, plats, startPos) ==
    [name |-> levelName,
     platforms |-> [k \in 1..Len(plats) |-> Serialize(plats[k])],
     playerStart |-> startPos, hasPlayerStart |-> TRUE]

KnownTypes == {"SolidPlatform", "Trampoline", "Star", "PlayerStart"}

(* The switch of loadLevel for one stored record of a known type.          *)
Reconstruct(d) ==
    CASE d.type = "SolidPlatform" ->
            SolidPlatform(d.x, d.y,
                          IF d.width # 0 THEN d.width ELSE defaultSolidWidth,
                          IF d.height # 0 THEN d.height ELSE defaultSolidHeight)
      [] d.type = "Trampoline" ->
            Trampoline(d.x, d.y,
                       IF d.bounceForce # 0 THEN d.bounceForce
                       ELSE trampolineBounce)
      [] d.type = "Star" ->
            IF d.collected
            THEN [Star(d.x, d.y) EXCEPT !.collected = TRUE, !.alpha = faded]
            ELSE Star(d.x, d.y)
      [] OTHER -> PlayerStart(d.x, d.y)

(* A forEach that stops at the first record of an unknown type.            *)
RECURSIVE RecreateFrom_StopAtUnknown(_, _, _)
RecreateFrom_StopAtUnknown(i, records, plats) ==
    IF i > Len(records) THEN plats
    ELSE IF records[i].type \in KnownTypes
    THEN RecreateFrom_StopAtUnknown(i + 1, records,
                                    addPlatform(plats, Reconstruct(records[i])))
    ELSE plats

(* The forEach of loadLevel: records of an unknown type are skipped.       *)
RECURSIVE RecreateFrom(_, _, _)
RecreateFrom(i, records, plats) ==
    IF i > Len(records) THEN plats
    ELSE IF records[i].type \in KnownTypes
    THEN RecreateFrom(i + 1, records, addPlatform(plats, Reconstruct(records[i])))
    ELSE RecreateFrom(i + 1, records, plats)

(* savedLevels[levelName]: the index of the level of that name, 0 if none. *)
LevelIndex(saved, levelName) ==
    LET S == {i \in 1..Len(saved) : saved[i].name = levelName}
    IN  IF S = {} THEN 0 ELSE CHOOSE i \in S : TRUE

(* A write that adds the record without replacing the one under its name.  *)
PutLevel_Append(saved, data) == Append(saved, data)

(* savedLevels[levelName] = levelData: an existing key keeps its place.    *)
PutLevel(saved, data) ==
    LET i == LevelIndex(saved, data.name)
    IN  IF i > 0 THEN [saved EXCEPT ![i] = data] ELSE Append(saved, data)

(* delete savedLevels[levelName]                                           *)
DropLevel(saved, levelName) ==
    LET i == LevelIndex(saved, levelName)
    IN  [k \in 1..(Len(saved) - 1) |-> IF k < i THEN saved[k] ELSE saved[k + 1]]

getSavedLevels(g, io) == IF io.read THEN g.levels ELSE << >>

listSavedLevels(g, io) ==
    LET saved == getSavedLevels(g, io)
    IN  [k \in 1..Len(saved) |-> saved[k].name]

getLastUsedLevel(g, io) == IF io.readLast THEN g.lastLevel ELSE NoName

setLastUsedLevel(g, levelName, io) ==
    IF io.last THEN [g EXCEPT !.lastLevel = levelName] ELSE g

(* g is the part of the game a store operation can touch:                  *)
(* [platforms, playerStartPos, currentLevelName, levels, lastLevel].       *)

(* A saveLevel that sets currentLevelName before the write is attempted.   *)
saveLevel_NameFirst(g, levelName, io) ==
    LET levelData == LevelData(levelName, g.platforms, g.playerStartPos)
        saved     == PutLevel(getSavedLevels(g, io), levelData)
        named     == [g EXCEPT !.currentLevelName = levelName]
    IN  IF io.write
        THEN [g  |-> setLastUsedLevel([named EXCEPT !.levels = saved],
                                      levelName, io),
              ok |-> TRUE]
        ELSE [g |-> named, ok |-> FALSE]

saveLevel(g, levelName, io) ==
    LET levelData == LevelData(levelName, g.platforms, g.playerStartPos)
        saved     == PutLevel(getSavedLevels(g, io), levelData)
    IN  IF io.write
        THEN [g  |-> setLastUsedLevel(
                        [g EXCEPT !.levels = saved,
                                  !.currentLevelName = levelName],
                        levelName, io),
              ok |-> TRUE]
        ELSE [g |-> g, ok |-> FALSE]

(* A loadLevel that clears the live sequence before it looks the name up. *)
loadLevel_ClearFirst(g, levelName, io) ==
    LET saved == getSavedLevels(g, io)
        i     == LevelIndex(saved, levelName)
    IN  IF i = 0
        THEN [g |-> [g EXCEPT !.platforms = clearAllPlatforms(g.platforms)],
              ok |-> FALSE]
        ELSE [g  |-> setLastUsedLevel(
                        [g EXCEPT
                           !.platforms =
                               RecreateFrom(1, saved[i].platforms,
                                            clearAllPlatforms(g.platforms)),
                           !.playerStartPos =
                               IF saved[i].hasPlayerStart
                               THEN saved[i].playerStart
                               ELSE g.playerStartPos,
                           !.currentLevelName = levelName],
                        levelName, io),
              ok |-> TRUE]

loadLevel(g, levelName, io) ==
    LET saved == getSavedLevels(g, io)
        i     == LevelIndex(saved, levelName)
    IN  IF i = 0
        THEN [g |-> g, ok |-> FALSE]
        ELSE [g  |-> setLastUsedLevel(
                        [g EXCEPT
                           !.platforms =
                               RecreateFrom(1, saved[i].platforms,
                                            clearAllPlatforms(g.platforms)),
                           !.playerStartPos =
                               IF saved[i].hasPlayerStart
                               THEN saved[i].playerStart
                               ELSE g.playerStartPos,
                           !.currentLevelName = levelName],
                        levelName, io),
              ok |-> TRUE]

(* A deletLevel that writes an empty mapping back.                         *)
deletLevel_ClearAll(g, levelName, io) ==
    LET saved == getSavedLevels(g, io)
    IN  IF LevelIndex(saved, levelName) > 0 /\ io.write
        THEN [g |-> [g EXCEPT !.levels = << >>], ok |-> TRUE]
        ELSE [g |-> g, ok |-> FALSE]

deletLevel(g, levelName, io) ==
    LET saved == getSavedLevels(g, io)
    IN  IF LevelIndex(saved, levelName) > 0 /\ io.write
        THEN [g |-> [g EXCEPT !.levels = DropLevel(saved, levelName)],
              ok |-> TRUE]
        ELSE [g |-> g, ok |-> FALSE]

createDemoLevel ==
    << Trampoline(2000, 4500, -180), Trampoline(4000, 3500, -250),
       Trampoline(6000, 4000, -150),
       SolidPlatform(1500, 3000, 1000, 150), SolidPlatform(5000, 2500, 1500, 150),
       SolidPlatform(3000, 2000, 800, 150),
       Star(3000, 1700), Star(5000, 2200) >>

(* String.trim on the answers the prompt() dialog is given here.           *)
Trim(text) ==
    CASE text = " A " -> "A"
      [] text = "  "  -> ""
      [] OTHER        -> text

(* saveAsNewLevel; answer is what prompt() returned (NoName = cancelled).  *)
saveAsNewLevel(g, answer, io) ==
    IF answer # NoName /\ answer # "" /\ Trim(answer) # ""
    THEN LET trimmedName == Trim(answer)
             r == saveLevel(g, trimmedName, io)
         IN  [g  |-> setLastUsedLevel(
                        [r.g EXCEPT !.currentLevelName = trimmedName],
                        trimmedName, io),
              ok |-> r.ok]
    ELSE [g |-> g, ok |-> FALSE]

(* A loadInitialLevel that always loads the first listed level.            *)
loadInitialLevel_FirstListed(g, io) ==
    LET savedLevels == listSavedLevels(g, io) IN
    IF Len(savedLevels) = 0
    THEN LET r == saveLevel([g EXCEPT !.platforms = createDemoLevel],
                            "Demo", io)
         IN  [g  |-> setLastUsedLevel(
                        [r.g EXCEPT !.currentLevelName = "Demo"], "Demo", io),
              ok |-> r.ok]
    ELSE loadLevel(g, savedLevels[1], io)

(* A loadInitialLevel that saves 'Demo' before the demo level is created.  *)
loadInitialLevel_SaveFirst(g, io) ==
    LET savedLevels == listSavedLevels(g, io) IN
    IF Len(savedLevels) = 0
    THEN LET r == saveLevel(g, "Demo", io)
         IN  [g  |-> setLastUsedLevel(
                        [r.g EXCEPT !.platforms = createDemoLevel,
                                    !.currentLevelName = "Demo"], "Demo", io),
              ok |-> r.ok]
    ELSE LET lastUsed == getLastUsedLevel(g, io)
             listed == {savedLevels[k] : k \in 1..Len(savedLevels)}
             levelToLoad == IF lastUsed # NoName /\ lastUsed # ""
                               /\ lastUsed \in listed
                            THEN lastUsed ELSE savedLevels[1]
         IN  loadLevel(g, levelToLoad, io)

loadInitialLevel(g, io) ==
    LET savedLevels == listSavedLevels(g, io) IN
    IF Len(savedLevels) = 0
    THEN LET r == saveLevel([g EXCEPT !.platforms = createDemoLevel],
                            "Demo", io)
         IN  [g  |-> setLastUsedLevel(
                        [r.g EXCEPT !.currentLevelName = "Demo"], "Demo", io),
              ok |-> r.ok]
    ELSE LET lastUsed == getLastUsedLevel(g, io)
             listed == {savedLevels[k] : k \in 1..Len(savedLevels)}
             levelToLoad == IF lastUsed # NoName /\ lastUsed # ""
                               /\ lastUsed \in listed
                            THEN lastUsed ELSE savedLevels[1]
         IN  loadLevel(g, levelToLoad, io)

----------------------------------------------------------------------------
(* Level editor.                                                           *)

ToolKeys == {"platform", "trampoline", "star", "playerStart", "erase"}

(* PIXI.Rectangle.intersects: the two boxes share a region of positive     *)
(* area.                                                                   *)
Max(a, b) == IF a > b THEN a ELSE b
Min(a, b) == IF a < b THEN a ELSE b

RectIntersects(a, b) ==
    /\ Min(a.x + a.width, b.x + b.width) > Max(a.x, b.x)
    /\ Min(a.y + a.height, b.y + b.height) > Max(a.y, b.y)

IsNotPlayerStart(e) == platformType(e) # "playerStart"

(* A placeObject that does not remove the existing start markers.         *)
placeObject_NoEvict(plats, x, y, toolType) ==
    CASE toolType = "erase"       -> plats
      [] toolType = "platform"    ->
            addPlatform(plats, SolidPlatform(x, y, editorSolidWidth,
                                             editorSolidHeight))
      [] toolType = "trampoline"  ->
            addPlatform(plats, Trampoline(x, y, trampolineBounce))
      [] toolType = "playerStart" -> addPlatform(plats, PlayerStart(x, y))
      [] OTHER                    -> addPlatform(plats, Star(x, y))

placeObject(plats, x, y, toolType) ==
    CASE toolType = "erase"       -> plats
      [] toolType = "platform"    ->
            addPlatform(plats, SolidPlatform(x, y, editorSolidWidth,
                                             editorSolidHeight))
      [] toolType = "trampoline"  ->
            addPlatform(plats, Trampoline(x, y, trampolineBounce))
      [] toolType = "playerStart" ->
            addPlatform(SelectSeq(plats, IsNotPlayerStart), PlayerStart(x, y))
      [] OTHER                    -> addPlatform(plats, Star(x, y))

ClickBounds(x, y) ==
    [x |-> x - probeSize \div 2, y |-> y - probeSize \div 2,
     width |-> probeSize, height |-> probeSize]

(* An erase that scans the array from its first element.                  *)
EraseIndex_Forward(plats, x, y) ==
    LET S == {i \in 1..Len(plats) :
                RectIntersects(ClickBounds(x, y), GetBounds(plats[i]))}
    IN  IF S = {} THEN 0 ELSE CHOOSE i \in S : \A j \in S : i <= j

(* The index eraseAtPosition removes: the last entity the probe meets.     *)
EraseIndex(plats, x, y) ==
    LET S == {i \in 1..Len(plats) :
                RectIntersects(ClickBounds(x, y), GetBounds(plats[i]))}
    IN  IF S = {} THEN 0 ELSE CHOOSE i \in S : \A j \in S : j <= i

eraseAtPosition(plats, x, y) ==
    LET i == EraseIndex(plats, x, y)
    IN  IF i > 0 THEN removePlatform(plats, i) ELSE plats

handleCanvasClick(plats, x, y, tool) ==
    IF tool = "erase" THEN eraseAtPosition(plats, x, y)
    ELSE placeObject(plats, x, y, tool)

----------------------------------------------------------------------------
(* Display.  refs[k] is the identity of the object platforms[k] and stage  *)
(* the identities of the entities attached to app.stage; d is the pair     *)
(* [refs, stage].  A new object takes the least identity that no live or   *)
(* attached object has.                                                    *)

Refs(d) == {d.refs[k] : k \in 1..Len(d.refs)}

NewRef(d) ==
    CHOOSE n \in 1..(Len(d.refs) + Cardinality(d.stage) + 1) :
        /\ n \notin Refs(d) \cup d.stage
        /\ \A m \in 1..(n - 1) : m \in Refs(d) \cup d.stage

Stage_addPlatform(d) ==
    LET n == NewRef(d)
    IN  [refs |-> Append(d.refs, n), stage |-> d.stage \cup {n}]

RECURSIVE Stage_addPlatforms(_, _)
Stage_addPlatforms(d, count) ==
    IF count = 0 THEN d
    ELSE Stage_addPlatforms(Stage_addPlatform(d), count - 1)

Stage_removePlatform(d, index) ==
    IF index >= 1 /\ index <= Len(d.refs)
    THEN [refs  |-> [k \in 1..(Len(d.refs) - 1) |->
                       IF k < index THEN d.refs[k] ELSE d.refs[k + 1]],
          stage |-> d.stage \ {d.refs[index]}]
    ELSE d

(* A clearAllPlatforms that leaves the entities attached to the stage.     *)
Stage_clearAllPlatforms_Leak(d) == [refs |-> << >>, stage |-> d.stage]

Stage_clearAllPlatforms(d) ==
    [refs |-> << >>, stage |-> d.stage \ Refs(d)]

Stage_handlePlatformControls(d, held, before, confirmed) ==
    LET d1 == IF KeyPressed("KeyT", held, before)
              THEN Stage_addPlatform(d) ELSE d
        d2 == IF KeyPressed("KeyP", held, before)
              THEN Stage_addPlatform(d1) ELSE d1
        d3 == IF KeyPressed("KeyR", held, before) /\ Len(d2.refs) > 0
              THEN Stage_removePlatform(d2, Len(d2.refs))
              ELSE d2
    IN  IF KeyPressed("KeyC", held, before) /\ confirmed
        THEN Stage_clearAllPlatforms(d3)
        ELSE d3

(* createDemoLevel assigns a new array and attaches its eight entities.    *)
Stage_createDemoLevel(d) ==
    Stage_addPlatforms([refs |-> << >>, stage |-> d.stage],
                       Len(createDemoLevel))

Stage_loadLevel(d, g, levelName, io) ==
    LET saved == getSavedLevels(g, io)
        i     == LevelIndex(saved, levelName)
    IN  IF i = 0 THEN d
        ELSE Stage_addPlatforms(
                 Stage_clearAllPlatforms(d),
                 Len(RecreateFrom(1, saved[i].platforms, << >>)))

Stage_loadInitialLevel(d, g, io) ==
    LET savedLevels == listSavedLevels(g, io) IN
    IF Len(savedLevels) = 0
    THEN Stage_createDemoLevel(d)
    ELSE LET lastUsed == getLastUsedLevel(g, io)
             listed == {savedLevels[k] : k \in 1..Len(savedLevels)}
             levelToLoad == IF lastUsed # NoName /\ lastUsed # ""
                               /\ lastUsed \in listed
                            THEN lastUsed ELSE savedLevels[1]
         IN  Stage_loadLevel(d, g, levelToLoad, io)

(* placeObject: the filter detaches every start marker it drops.           *)
Stage_placeObject(d, plats, toolType) ==
    CASE toolType = "erase"       -> d
      [] toolType = "playerStart" ->
            LET kept == {k \in 1..Len(plats) : IsNotPlayerStart(plats[k])}
                gone == {d.refs[k] : k \in (1..Len(plats)) \ kept}
                IsKept(n) == n \notin gone
            IN  Stage_addPlatform([refs  |-> SelectSeq(d.refs, IsKept),
                                   stage |-> d.stage \ gone])
      [] OTHER                    -> Stage_addPlatform(d)

Stage_eraseAtPosition(d, plats, x, y) ==
    LET i == EraseIndex(plats, x, y)
    IN  IF i > 0 THEN Stage_removePlatform(d, i) ELSE d

Stage_handleCanvasClick(d, plats, x, y, tool) ==
    IF tool = "erase" THEN Stage_eraseAtPosition(d, plats, x, y)
    ELSE Stage_placeObject(d, plats, tool)

(* The trampolines of a sequence whose scale is squashed.                  *)
Squashed(plats) == {k \in 1..Len(plats) : plats[k].squashed}

----------------------------------------------------------------------------
(* Bounds of the exploration.  A run follows one of five scenarios: a      *)
(* budget of gameLoop frames, key events, editor clicks and store calls,   *)
(* the key codes the user presses and what the storage does.               *)

PlayFrames == 5
PlayKeys == 2
KeyboardFrames == 2
KeyboardKeys == 2
EditFrames == 1
EditKeys == 1
EditClicks == 2
StoreCalls == 2
WallFrames == 2
WallKeys == 1
WallCalls == 1

IoOutcomes ==
    { [read |-> TRUE,  readLast |-> TRUE,  write |-> TRUE,  last |-> TRUE],
      [read |-> TRUE,  readLast |-> TRUE,  write |-> TRUE,  last |-> FALSE],
      [read |-> TRUE,  readLast |-> TRUE,  write |-> FALSE, last |-> FALSE],
      [read |-> TRUE,  readLast |-> TRUE,  write |-> FALSE, last |-> TRUE],
      [read |-> TRUE,  readLast |-> FALSE, write |-> TRUE,  last |-> TRUE],
      [read |-> FALSE, readLast |-> FALSE, write |-> TRUE,  last |-> TRUE] }

AllOk == [read |-> TRUE, readLast |-> TRUE, write |-> TRUE, last |-> TRUE]

Scenarios ==
    { [frames |-> PlayFrames, keys |-> PlayKeys, clicks |-> 0, calls |-> 0,
       codes |-> {"ArrowLeft", "ArrowRight", "Space"}, io |-> {AllOk}],
      [frames |-> KeyboardFrames, keys |-> KeyboardKeys, clicks |-> 0,
       calls |-> 0, codes |-> {"KeyT", "KeyP", "KeyR", "KeyC"},
       io |-> {AllOk}],
      [frames |-> EditFrames, keys |-> EditKeys, clicks |-> EditClicks,
       calls |-> 0, codes |-> {"KeyE"}, io |-> {AllOk}],
      [frames |-> WallFrames, keys |-> WallKeys, clicks |-> 0,
       calls |-> WallCalls, codes |-> {"ArrowLeft"}, io |-> {AllOk}],
      [frames |-> 0, keys |-> 0, clicks |-> 0, calls |-> StoreCalls,
       codes |-> {}, io |-> IoOutcomes] }

(* Inputs.                                                                 *)
ClickPoints == { [x |-> 1000, y |-> 1305], [x |-> 3000, y |-> 2000] }

LoadNames == {"Demo", "A", "B", "Nope"}

SaveNames == {"B"}

DeleteNames == {"A", "Nope"}

PromptAnswers == {" A ", "  ", NoName}

(* Utils.random(100, 700) x (150, 450), (-15, -30) and (80, 150).          *)
TrampolineDraws ==
    { [x |-> 1000, y |-> 1500, bounceForce |-> b] : b \in {-150, -250} }

SolidDraws == { [x |-> 1000, y |-> 1500, width |-> w] : w \in {800, 1200} }

(* Stored records as saveLevel writes them in 'trampolineLevels'.          *)
Stored(type, x, y, width, height, bounceForce, collected) ==
    [type |-> type, x |-> x, y |-> y, width |-> width, height |-> height,
     bounceForce |-> bounceForce, collected |-> collected]

StoredSolid(x, y, width, height) ==
    Stored("SolidPlatform", x, y, width, height, defaultBounce, FALSE)

StoredTrampoline(x, y, bounceForce) ==
    Stored("Trampoline", x, y, trampolineWidth, trampolineHeight, bounceForce,
           FALSE)

StoredStar(x, y, collected) ==
    Stored("Star", x, y, starWidth, starHeight, defaultBounce, collected)

StoredStart(x, y) ==
    Stored("PlayerStart", x, y, startMarkerSize, startMarkerSize,
           defaultBounce, FALSE)

StoredLevel(levelName, records, startPos) ==
    [name |-> levelName, platforms |-> records, playerStart |-> startPos,
     hasPlayerStart |-> TRUE]

(* Level A: a star the character touches at once, two solids stacked       *)
(* 1 px apart, a start marker, and a trampoline overlapping the solids.    *)
LevelA ==
    << StoredStar(1000, 1100, FALSE), StoredSolid(1000, 1300, 1000, 150),
       StoredSolid(1000, 1310, 1000, 150), StoredStart(500, 800),
       StoredTrampoline(1000, 1330, -200) >>

(* Level B: a collected star, a trampoline under the character, a star     *)
(* that the character reaches in the frame of the bounce, a solid that the *)
(* character overlaps from below and rises through after the bounce, and a *)
(* solid beside the character at the height of its feet.                   *)
LevelB ==
    << StoredStar(1000, 1100, TRUE), StoredTrampoline(1000, 1330, -250),
       StoredStar(1000, 1370, FALSE), StoredSolid(1000, 1000, 1000, 150),
       StoredSolid(2000, 1250, 1000, 150) >>

(* Level C, edited by hand: records of types this program does not know   *)
(* among known ones; a solid 0.6 px high just under the character's feet;  *)
(* a solid the character lands on in its first frame; a start marker left  *)
(* of the screen's left bound and just above the ground line, over a       *)
(* trampoline whose top edge is on the ground line and beside a star.      *)
LevelC ==
    << Stored("Spike", 1000, 1200, 300, 300, 0, FALSE),
       StoredSolid(1000, 1300, 1000, 150),
       Stored("Laser", 2000, 1200, 300, 300, 0, FALSE),
       StoredStar(1000, 1100, FALSE),
       StoredTrampoline(3000, 2000, -200),
       Stored("Spike", 3000, 1200, 300, 300, 0, FALSE),
       StoredSolid(1000, 1204, 1000, 6),
       StoredSolid(1000, 1280, 1000, 150),
       StoredStar(300, 4700, FALSE),
       StoredStart(150, 4795),
       StoredTrampoline(600, 5100, -200) >>

(* Level D, edited by hand: a trampoline under the character with a       *)
(* bounce of 0.8 px per frame, which the character meets again within the  *)
(* delay of its animation.                                                 *)
LevelD == << StoredTrampoline(1000, 1300, -8) >>

DefaultStart == [x |-> playerInitX, y |-> playerInitY]

(* What localStorage may hold when the page loads: nothing; levels A and B *)
(* saved in an earlier session, with or without a last-used name; a level  *)
(* holding records of types this program does not know; a level saved      *)
(* after all its entities were cleared, whose start position is just above *)
(* the ground line; a level with a weak trampoline.                        *)
InitialStores ==
    { [levels |-> << >>, lastLevel |-> NoName],
      [levels |-> << StoredLevel("A", LevelA, DefaultStart),
                     StoredLevel("B", LevelB, [x |-> 500, y |-> 800]) >>,
       lastLevel |-> "B"],
      [levels |-> << StoredLevel("A", LevelA, DefaultStart),
                     StoredLevel("B", LevelB, [x |-> 500, y |-> 800]) >>,
       lastLevel |-> NoName],
      [levels |-> << StoredLevel("A", LevelC, [x |-> 500, y |-> 800]) >>,
       lastLevel |-> "Demo"],
      [levels |-> << StoredLevel("B", << >>, [x |-> 1000, y |-> 4795]) >>,
       lastLevel |-> "B"],
      [levels |-> << StoredLevel("A", LevelD, DefaultStart) >>,
       lastLevel |-> "A"] }

----------------------------------------------------------------------------
(* State machine.                                                          *)

NoTrace == [hit |-> -1]

NoPoint == [x |-> 0, y |-> 0]

(* The record of an operation: its name, its argument (a level name, a key *)
(* code, a tool), its result, what the storage did, the click point, and   *)
(* for loadLevel(n) whether it directly follows a successful saveLevel(n). *)
OpAt(op, name, ok, io, at) ==
    [op |-> op, name |-> name, ok |-> ok, io |-> io, at |-> at,
     afterSave |-> FALSE]

Op(op, name, ok) == OpAt(op, name, ok, AllOk, NoPoint)

Record(entry) == lastOp' = entry

JustSaved(levelName) ==
    /\ lastOp.op \in {"saveLevel", "saveButton"}
    /\ lastOp.ok
    /\ lastOp.name = levelName

Game == [platforms |-> platforms, playerStartPos |-> playerStartPos,
         currentLevelName |-> currentLevelName, levels |-> levels,
         lastLevel |-> lastLevel]

SetGame(g) ==
    /\ platforms' = g.platforms
    /\ playerStartPos' = g.playerStartPos
    /\ currentLevelName' = g.currentLevelName
    /\ levels' = g.levels
    /\ lastLevel' = g.lastLevel

Display == [refs |-> refs, stage |-> stage]

SetDisplay(d) ==
    /\ refs' = d.refs
    /\ stage' = d.stage

(* The timers of the squashed trampolines that leave the live sequence     *)
(* stay pending; kept is the live sequence after the removals.             *)
Detach(kept) ==
    timers' = timers + Cardinality(Squashed(platforms))
                     - Cardinality(Squashed(kept))

Spend(what) == budget' = [budget EXCEPT ![what] = @ - 1]

(* The keys of the one-shot commands: add-trampoline, add-platform,        *)
(* remove-last, toggle-editor, clear-all.                                  *)
OneShotKeys == {"KeyT", "KeyP", "KeyR", "KeyE", "KeyC"}

(* For a held one-shot key: the frames that have sampled it since its      *)
(* keydown, and how many of them fired its command.                        *)
NoFires == [frames |-> 0, fired |-> 0]

(* The state after the constructors of Game and LevelEditor, before        *)
(* loadInitialLevel.                                                       *)
Init ==
    /\ platforms = << >>
    /\ player = [x |-> playerInitX, y |-> playerInitY, vx |-> 0, vy |-> 0,
                 onGround |-> FALSE]
    /\ playerStartPos = DefaultStart
    /\ currentLevelName = NoName
    /\ \E store \in InitialStores :
          /\ levels = store.levels
          /\ lastLevel = store.lastLevel
    /\ keys = {}
    /\ lastKeys = {}
    /\ isEnabled = FALSE
    /\ selectedTool = "platform"
    /\ booted = FALSE
    /\ refs = << >>
    /\ stage = {}
    /\ timers = 0
    /\ lastOp = Op("init", NoName, TRUE)
    /\ trace = NoTrace
    /\ fires = [code \in {} |-> NoFires]
    /\ budget \in Scenarios

(* Game.init: loadInitialLevel, after which the ticker and the listeners   *)
(* run.                                                                    *)
LoadInitialLevel ==
    /\ ~booted
    /\ \E io \in budget.io :
          LET r == loadInitialLevel(Game, io) IN
          /\ SetGame(r.g)
          /\ SetDisplay(Stage_loadInitialLevel(Display, Game, io))
          /\ Detach(<< >>)
          /\ Record(OpAt("loadInitialLevel", r.g.currentLevelName, r.ok, io,
                          NoPoint))
    /\ booted' = TRUE
    /\ trace' = NoTrace
    /\ UNCHANGED <<player, keys, lastKeys, isEnabled, selectedTool, budget,
                   fires>>

KeyDown ==
    /\ booted /\ budget.keys > 0
    /\ \E code \in budget.codes \ keys :
          /\ keys' = keys \cup {code}
          /\ fires' = [c \in DOMAIN fires \cup ({code} \cap OneShotKeys) |->
                          IF c = code THEN NoFires ELSE fires[c]]
          /\ Record(Op("keydown", code, TRUE))
    /\ Spend("keys")
    /\ trace' = NoTrace
    /\ UNCHANGED <<platforms, player, playerStartPos, currentLevelName, levels,
                   lastLevel, lastKeys, isEnabled, selectedTool, booted>>
    /\ UNCHANGED <<refs, stage, timers>>

KeyUp ==
    /\ booted /\ budget.keys > 0
    /\ \E code \in keys :
          /\ keys' = keys \ {code}
          /\ fires' = [c \in DOMAIN fires \ {code} |-> fires[c]]
          /\ Record(Op("keyup", code, TRUE))
    /\ Spend("keys")
    /\ trace' = NoTrace
    /\ UNCHANGED <<platforms, player, playerStartPos, currentLevelName, levels,
                   lastLevel, lastKeys, isEnabled, selectedTool, booted>>
    /\ UNCHANGED <<refs, stage, timers>>

(* gameLoop: handleInput (with handlePlatformControls), updatePhysics.     *)
Tick ==
    /\ booted /\ budget.frames > 0
    /\ \E rt \in (IF KeyPressed("KeyT", keys, lastKeys)
                  THEN TrampolineDraws
                  ELSE {[x |-> 0, y |-> 0, bounceForce |-> 0]}),
          rp \in (IF KeyPressed("KeyP", keys, lastKeys)
                  THEN SolidDraws ELSE {[x |-> 0, y |-> 0, width |-> 0]}),
          confirmed \in (IF KeyPressed("KeyC", keys, lastKeys)
                         THEN BOOLEAN ELSE {FALSE}) :
          LET moved == handleInput(player, keys)
              c == handlePlatformControls(platforms, isEnabled, keys, lastKeys,
                                          rt, rp, confirmed)
              u == updatePhysics(moved, c.platforms, playerStartPos)
          IN  /\ player' = u.player
              /\ platforms' = u.platforms
              /\ isEnabled' = c.isEnabled
              /\ SetDisplay(Stage_handlePlatformControls(Display, keys,
                                                         lastKeys, confirmed))
              /\ Detach(c.platforms)
              /\ trace' = [hit |-> u.hit, hitBounds |-> u.hitBounds,
                           int |-> u.int, coll |-> u.coll, stars |-> u.stars,
                           reset |-> u.reset, before |-> c.platforms,
                           jumped |-> JumpHonored(player, keys)]
    /\ lastKeys' = keys
    /\ fires' = [c \in DOMAIN fires |->
                    [frames |-> fires[c].frames + 1,
                     fired  |-> fires[c].fired
                                + (IF KeyPressed(c, keys, lastKeys)
                                   THEN 1 ELSE 0)]]
    /\ Record(Op("tick", NoName, TRUE))
    /\ Spend("frames")
    /\ UNCHANGED <<playerStartPos, currentLevelName, levels, lastLevel, keys,
                   selectedTool, booted>>

(* The timer of playBounceAnimation fires for a squashed live trampoline.  *)
(* The timer of playBounceAnimation fires: for a squashed live trampoline, *)
(* or for a trampoline that left the live sequence while squashed.         *)
BounceTimeout ==
    /\ booted
    /\ \/ /\ \E i \in 1..Len(platforms) :
                /\ platforms[i].squashed
                /\ platforms' = [platforms EXCEPT ![i].squashed = FALSE]
          /\ timers' = timers
          /\ Record(Op("timeout", "live", TRUE))
       \/ /\ timers > 0
          /\ timers' = timers - 1
          /\ platforms' = platforms
          /\ Record(Op("timeout", "detached", TRUE))
    /\ trace' = NoTrace
    /\ UNCHANGED <<player, playerStartPos, currentLevelName, levels, lastLevel,
                   keys, lastKeys, isEnabled, selectedTool, booted, budget,
                   fires, refs, stage>>

(* A palette button's pointerdown; the palette shows while the editor is   *)
(* enabled.                                                                *)
SelectTool ==
    /\ booted /\ isEnabled /\ budget.clicks > 0
    /\ \E toolKey \in ToolKeys \ {selectedTool} :
          /\ selectedTool' = toolKey
          /\ Record(Op("selectTool", toolKey, TRUE))
    /\ Spend("clicks")
    /\ trace' = NoTrace
    /\ UNCHANGED <<platforms, player, playerStartPos, currentLevelName, levels,
                   lastLevel, keys, lastKeys, isEnabled, booted, fires>>
    /\ UNCHANGED <<refs, stage, timers>>

(* The canvas click listener: handleCanvasClick while the editor is        *)
(* enabled.                                                                *)
CanvasClick ==
    /\ booted /\ isEnabled /\ budget.clicks > 0
    /\ \E at \in ClickPoints :
          /\ platforms' = handleCanvasClick(platforms, at.x, at.y, selectedTool)
          /\ SetDisplay(Stage_handleCanvasClick(Display, platforms, at.x,
                                                at.y, selectedTool))
          /\ Detach(handleCanvasClick(platforms, at.x, at.y, selectedTool))
          /\ Record(OpAt("click", selectedTool, TRUE, AllOk, at))
    /\ Spend("clicks")
    /\ trace' = NoTrace
    /\ UNCHANGED <<player, playerStartPos, currentLevelName, levels, lastLevel,
                   keys, lastKeys, isEnabled, selectedTool, booted, fires>>

(* A call of Game.saveLevel(levelName).                                    *)
SaveLevel ==
    /\ booted /\ budget.calls > 0
    /\ \E levelName \in SaveNames, io \in budget.io :
          LET r == saveLevel(Game, levelName, io) IN
          /\ SetGame(r.g)
          /\ Record(OpAt("saveLevel", levelName, r.ok, io, NoPoint))
    /\ Spend("calls")
    /\ trace' = NoTrace
    /\ UNCHANGED <<player, keys, lastKeys, isEnabled, selectedTool, booted,
                   fires>>
    /\ UNCHANGED <<refs, stage, timers>>

(* The Save button.                                                        *)
SaveButton ==
    /\ booted /\ budget.calls > 0
    /\ \E io \in budget.io,
          answer \in (IF currentLevelName # NoName /\ currentLevelName # ""
                      THEN {NoName} ELSE PromptAnswers) :
          LET r == IF currentLevelName # NoName /\ currentLevelName # ""
                   THEN saveLevel(Game, currentLevelName, io)
                   ELSE saveAsNewLevel(Game, answer, io)
          IN  /\ SetGame(r.g)
              /\ Record(OpAt("saveButton", r.g.currentLevelName, r.ok, io,
                              NoPoint))
    /\ Spend("calls")
    /\ trace' = NoTrace
    /\ UNCHANGED <<player, keys, lastKeys, isEnabled, selectedTool, booted,
                   fires>>
    /\ UNCHANGED <<refs, stage, timers>>

(* The Save As button.                                                     *)
SaveAsButton ==
    /\ booted /\ budget.calls > 0
    /\ \E answer \in PromptAnswers, io \in budget.io :
          LET r == saveAsNewLevel(Game, answer, io) IN
          /\ SetGame(r.g)
          /\ Record(OpAt("saveAs", answer, r.ok, io, NoPoint))
    /\ Spend("calls")
    /\ trace' = NoTrace
    /\ UNCHANGED <<player, keys, lastKeys, isEnabled, selectedTool, booted,
                   fires>>
    /\ UNCHANGED <<refs, stage, timers>>

(* A call of Game.loadLevel(levelName): the Load button, the dropdown.     *)
LoadLevel ==
    /\ booted /\ budget.calls > 0
    /\ \E levelName \in LoadNames, io \in budget.io :
          LET r == loadLevel(Game, levelName, io) IN
          /\ SetGame(r.g)
          /\ SetDisplay(Stage_loadLevel(Display, Game, levelName, io))
          /\ Detach(IF r.ok THEN << >> ELSE platforms)
          /\ Record([OpAt("loadLevel", levelName, r.ok, io, NoPoint)
                         EXCEPT !.afterSave = JustSaved(levelName)])
    /\ Spend("calls")
    /\ trace' = NoTrace
    /\ UNCHANGED <<player, keys, lastKeys, isEnabled, selectedTool, booted,
                   fires>>

(* A call of Game.deletLevel(levelName).                                   *)
DeletLevel ==
    /\ booted /\ budget.calls > 0
    /\ \E levelName \in DeleteNames, io \in budget.io :
          LET r == deletLevel(Game, levelName, io) IN
          /\ SetGame(r.g)
          /\ Record(OpAt("deletLevel", levelName, r.ok, io, NoPoint))
    /\ Spend("calls")
    /\ trace' = NoTrace
    /\ UNCHANGED <<player, keys, lastKeys, isEnabled, selectedTool, booted,
                   fires>>
    /\ UNCHANGED <<refs, stage, timers>>

(* A call of Game.resetGame().                                             *)
ResetGame ==
    /\ booted /\ budget.calls > 0
    /\ LET r == resetGame(player, platforms, playerStartPos) IN
       /\ player' = r.player
       /\ platforms' = r.platforms
    /\ Record(Op("resetGame", NoName, TRUE))
    /\ Spend("calls")
    /\ trace' = [hit |-> -1, before |-> platforms]
    /\ UNCHANGED <<playerStartPos, currentLevelName, levels, lastLevel, keys,
                   lastKeys, isEnabled, selectedTool, booted, fires>>
    /\ UNCHANGED <<refs, stage, timers>>

Next ==
    \/ LoadInitialLevel
    \/ KeyDown
    \/ KeyUp
    \/ Tick
    \/ BounceTimeout
    \/ SelectTool
    \/ CanvasClick
    \/ SaveLevel
    \/ SaveButton
    \/ SaveAsButton
    \/ LoadLevel
    \/ DeletLevel
    \/ ResetGame

Spec == Init /\ [][Next]_vars

(* The browser runs a timer's callback once its delay has passed.          *)
LiveSpec == Spec /\ WF_vars(BounceTimeout)

----------------------------------------------------------------------------
(* Properties.                                                             *)

Classes(plats) == {plats[i].cls : i \in 1..Len(plats)}

(* The two sequences have the same length and, position by position, the   *)
(* same type, x, y, and the same width and height (solids), bounceForce    *)
(* (trampolines) and collected flag (stars).                               *)
SameEntities(E, L) ==
    /\ Len(E) = Len(L)
    /\ \A i \in 1..Len(E) :
          /\ E[i].cls = L[i].cls
          /\ E[i].x = L[i].x
          /\ E[i].y = L[i].y
          /\ E[i].cls = "SolidPlatform" => E[i].w = L[i].w /\ E[i].h = L[i].h
          /\ E[i].cls = "Trampoline" => E[i].bounceForce = L[i].bounceForce
          /\ E[i].cls = "Star" => E[i].collected = L[i].collected

(* C1: a loadLevel(n) that directly follows a successful saveLevel(n)      *)
(* leaves a live sequence with the same length, types, order and field     *)
(* values as the one that was saved, and the same recorded start position. *)
C1_SaveLoadRoundTrip ==
    [][ (lastOp'.op = "loadLevel" /\ lastOp'.afterSave)
        => /\ SameEntities(platforms, platforms')
           /\ playerStartPos' = playerStartPos ]_vars

(* A successful load, directly after a save, of a level that holds all     *)
(* four entity types.                                                      *)
C1_Witness ==
    /\ lastOp.op = "loadLevel" /\ lastOp.afterSave /\ lastOp.ok
    /\ Classes(platforms) = KnownTypes

C3_FailedSaveIsNoOp ==
    [][ (lastOp'.op = "saveLevel" /\ ~lastOp'.io.write)
        => /\ ~lastOp'.ok
           /\ UNCHANGED <<platforms, levels, lastLevel, currentLevelName>> ]_vars

C3_Witness ==
    /\ lastOp.op = "saveLevel" /\ ~lastOp.io.write /\ ~lastOp.ok
    /\ currentLevelName # lastOp.name
    /\ Len(platforms) > 0

IsKnown(d) == d.type \in KnownTypes

KnownRecords(records) == SelectSeq(records, IsKnown)

(* The level record loadLevel(lastOp'.name) reads in the step.             *)
LoadedRecord == levels[LevelIndex(levels, lastOp'.name)]

LoadSucceeds ==
    /\ lastOp'.op = "loadLevel"
    /\ lastOp'.ok

LoadedExactly(records) ==
    /\ Len(platforms') = Len(KnownRecords(records))
    /\ \A k \in 1..Len(platforms') :
          platforms'[k] = Reconstruct(KnownRecords(records)[k])

(* C4, as stated: after a successful loadLevel(n) the live sequence is     *)
(* exactly the entities of n's stored record in stored order, the recorded *)
(* start position is the stored one, and the current-level name and the    *)
(* last-used slot both equal n.                                            *)
C4_LoadReplacesAll_AsStated ==
    [][ LoadSucceeds
        => /\ LoadedExactly(LoadedRecord.platforms)
           /\ playerStartPos' = LoadedRecord.playerStart
           /\ currentLevelName' = lastOp'.name
           /\ lastLevel' = lastOp'.name ]_vars

(* C4, amended: as stated, except that the last-used slot equals n only    *)
(* when the storage accepts that write, and otherwise keeps its value.     *)
C4_LoadReplacesAll ==
    [][ LoadSucceeds
        => /\ LoadedExactly(LoadedRecord.platforms)
           /\ playerStartPos' = LoadedRecord.playerStart
           /\ currentLevelName' = lastOp'.name
           /\ lastLevel' = IF lastOp'.io.last THEN lastOp'.name
                           ELSE lastLevel ]_vars

(* A successful load of the five-entity level A, the slot written.         *)
C4_Witness ==
    /\ lastOp.op = "loadLevel" /\ lastOp.ok /\ lastOp.name = "A"
    /\ lastOp.io.last
    /\ Len(platforms) = Len(LevelA)
    /\ currentLevelName = "A" /\ lastLevel = "A"
    /\ playerStartPos = DefaultStart

(* C5: loadLevel of a stored level that holds records of unknown types     *)
(* succeeds; the live sequence then has one entity per record of a known   *)
(* type, in the records' relative order.                                   *)
C5_UnknownTypesSkipped ==
    [][ ( /\ lastOp'.op = "loadLevel"
          /\ lastOp'.io.read
          /\ LevelIndex(levels, lastOp'.name) > 0
          /\ \E k \in 1..Len(LoadedRecord.platforms) :
                ~IsKnown(LoadedRecord.platforms[k]) )
        => LET known == KnownRecords(LoadedRecord.platforms) IN
           /\ lastOp'.ok
           /\ Len(platforms') = Len(known)
           /\ \A k \in 1..Len(known) :
                 /\ platforms'[k].cls = known[k].type
                 /\ platforms'[k].x = known[k].x
                 /\ platforms'[k].y = known[k].y ]_vars

(* Level C loaded: three known records between and after unknown ones.     *)
C5_Witness ==
    /\ lastOp.op = "loadLevel" /\ lastOp.ok
    /\ LevelIndex(levels, lastOp.name) > 0
    /\ levels[LevelIndex(levels, lastOp.name)].platforms = LevelC
    /\ Len(platforms) = Len(KnownRecords(LevelC))
    /\ Len(platforms) < Len(LevelC)

CountPlayerStarts(plats) ==
    Cardinality({i \in 1..Len(plats) : platformType(plats[i]) = "playerStart"})

(* C6: the live sequence never holds more than one playerStart, and right  *)
(* after a playerStart is placed at (x, y) it holds exactly one: the new   *)
(* one, at (x, y), as its last element.                                    *)
C6_AtMostOnePlayerStart ==
    /\ CountPlayerStarts(platforms) <= 1
    /\ (lastOp.op = "click" /\ lastOp.name = "playerStart")
       => /\ CountPlayerStarts(platforms) = 1
          /\ platforms[Len(platforms)] = PlayerStart(lastOp.at.x, lastOp.at.y)

(* A start marker placed into level A, which already held one: the        *)
(* other four entities of A are still there, followed by the new marker.   *)
C6_Witness ==
    /\ lastOp.op = "click" /\ lastOp.name = "playerStart"
    /\ currentLevelName = "A"
    /\ Len(platforms) = Len(LevelA)
    /\ platforms[Len(platforms) - 1].cls = "Trampoline"

(* C7: an erase click removes nothing when the probe meets no entity, and  *)
(* otherwise removes exactly the last entity of the sequence that the      *)
(* probe meets; the others keep their order.                               *)
C7_EraseRemovesTopmost ==
    [][ (lastOp'.op = "click" /\ lastOp'.name = "erase")
        => LET probe == ClickBounds(lastOp'.at.x, lastOp'.at.y)
               met == {i \in 1..Len(platforms) :
                         RectIntersects(probe, GetBounds(platforms[i]))}
           IN  IF met = {}
               THEN platforms' = platforms
               ELSE /\ Len(platforms') = Len(platforms) - 1
                    /\ \E i \in met :
                          /\ \A j \in met : j <= i
                          /\ \A k \in 1..(i - 1) : platforms'[k] = platforms[k]
                          /\ \A k \in i..Len(platforms') :
                                platforms'[k] = platforms[k + 1] ]_vars

(* An erase after which the probe still meets an entity: the click met     *)
(* two overlapping entities and one of them remains.                       *)
C7_Witness ==
    /\ lastOp.op = "click" /\ lastOp.name = "erase"
    /\ \E i \in 1..Len(platforms) :
          RectIntersects(ClickBounds(lastOp.at.x, lastOp.at.y),
                         GetBounds(platforms[i]))

(* The frame recorded in trace: entity i of the sequence the collision     *)
(* loop ran over qualifies when the player, after integration, is falling  *)
(* and stands on it.                                                       *)
Qualifies(i) ==
    /\ platformType(trace.before[i]) \in {"solid", "trampoline"}
    /\ trace.int.vy > 0
    /\ isStandingOn(trace.int, GetBounds(trace.before[i]))

FirstQualifying(i) ==
    /\ Qualifies(i)
    /\ \A j \in 1..(i - 1) : ~Qualifies(j)

(* After the collision loop the player's bottom edge is on i's top edge.   *)
RestsOn(i) ==
    trace.coll.y + playerSize \div 2 = GetBounds(trace.before[i]).y

(* C8, as stated: in every frame in which the falling character stands on  *)
(* a solid after integration, the collision loop leaves its bottom edge on *)
(* that solid's top edge, with vy = 0 and onGround = true.                 *)
C8_SolidLanding_AsStated ==
    lastOp.op = "tick" =>
        \A i \in 1..Len(trace.before) :
            (Qualifies(i) /\ platformType(trace.before[i]) = "solid")
            => /\ RestsOn(i)
               /\ trace.coll.vy = 0
               /\ trace.coll.onGround

(* C8, amended: the same for the solid that is the first solid or          *)
(* trampoline of the live sequence to qualify in that frame.               *)
C8_SolidLanding ==
    lastOp.op = "tick" =>
        \A i \in 1..Len(trace.before) :
            (FirstQualifying(i) /\ platformType(trace.before[i]) = "solid")
            => /\ RestsOn(i)
               /\ trace.coll.vy = 0
               /\ trace.coll.onGround

(* A frame in which a solid responded and the frame ends with the player   *)
(* resting on it.                                                          *)
C8_Witness ==
    /\ lastOp.op = "tick" /\ trace.hit > 0
    /\ platformType(trace.before[trace.hit]) = "solid"
    /\ trace.int.vy > 0
    /\ player.onGround /\ player.vy = 0
    /\ player.y + playerSize \div 2 = GetBounds(platforms[trace.hit]).y

(* C9, as stated: in every frame in which the falling character stands on  *)
(* a trampoline after integration, the collision loop leaves vy equal to   *)
(* that trampoline's bounceForce and the bottom edge on its top edge.      *)
C9_TrampolineBounce_AsStated ==
    lastOp.op = "tick" =>
        \A i \in 1..Len(trace.before) :
            (Qualifies(i) /\ platformType(trace.before[i]) = "trampoline")
            => /\ trace.coll.vy = trace.before[i].bounceForce
               /\ RestsOn(i)

(* C9, amended: the same for the trampoline that is the first solid or     *)
(* trampoline of the live sequence to qualify in that frame.               *)
C9_TrampolineBounce ==
    lastOp.op = "tick" =>
        \A i \in 1..Len(trace.before) :
            (FirstQualifying(i) /\ platformType(trace.before[i]) = "trampoline")
            => /\ trace.coll.vy = trace.before[i].bounceForce
               /\ RestsOn(i)

(* A frame in which a trampoline responded to a player falling at a speed  *)
(* other than the bounce.                                                  *)
C9_Witness ==
    /\ lastOp.op = "tick" /\ trace.hit > 0
    /\ platformType(trace.before[trace.hit]) = "trampoline"
    /\ trace.int.vy > 0
    /\ player.vy = trace.before[trace.hit].bounceForce
    /\ platforms[trace.hit].squashed

(* C10: in a frame, a collision with a star that is already collected      *)
(* leaves the star as it was; a collected star stays collected as long as  *)
(* no world reset runs; a star that is met is collected afterwards; and    *)
(* when no solid or trampoline responds, the collision loop leaves the     *)
(* player's position and velocity as integration left them.                *)
C10_StarIdempotent ==
    (lastOp.op = "tick" /\ ~trace.reset) =>
        /\ \A i \in trace.stars :
              /\ trace.before[i].collected => platforms[i] = trace.before[i]
              /\ platforms[i].collected
        /\ \A i \in 1..Len(trace.before) :
              (platformType(trace.before[i]) = "star"
               /\ trace.before[i].collected) => platforms[i].collected
        /\ (trace.hit = 0 /\ trace.stars # {}) => trace.coll = trace.int

(* A frame with a collision with an already collected star, and no solid   *)
(* or trampoline response.                                                 *)
C10_Witness ==
    /\ lastOp.op = "tick" /\ trace.hit = 0
    /\ \E i \in trace.stars : trace.before[i].collected

(* The entity is as it was, but for a star's collected flag and alpha.     *)
SameButStarFlags(e, f) ==
    IF platformType(e) = "star"
    THEN [f EXCEPT !.collected = e.collected, !.alpha = e.alpha] = e
    ELSE f = e

StartMarkers(plats) ==
    {i \in 1..Len(plats) : platformType(plats[i]) = "playerStart"}

(* C11: resetGame leaves every star uncollected and opaque, the character  *)
(* at rest and off the ground at the position of the playerStart entity of *)
(* the live sequence, or at the recorded start position when there is      *)
(* none, and the live sequence with the same entities in the same order.   *)
C11_ResetGame ==
    [][ lastOp'.op = "resetGame"
        => /\ Len(platforms') = Len(platforms)
           /\ \A i \in 1..Len(platforms) :
                 /\ SameButStarFlags(platforms[i], platforms'[i])
                 /\ platformType(platforms[i]) = "star"
                    => /\ ~platforms'[i].collected
                       /\ platforms'[i].alpha = opaque
           /\ player'.vx = 0 /\ player'.vy = 0 /\ ~player'.onGround
           /\ IF StartMarkers(platforms) # {}
              THEN \E i \in StartMarkers(platforms) :
                      /\ player'.x = platforms[i].x
                      /\ player'.y = platforms[i].y
              ELSE /\ player'.x = playerStartPos.x
                   /\ player'.y = playerStartPos.y ]_vars

(* A reset that turned a collected star back and moved the character to    *)
(* a start marker that is not at the recorded start position.              *)
C11_Witness ==
    /\ lastOp.op = "resetGame"
    /\ \E i \in 1..Len(platforms) :
          /\ platformType(platforms[i]) = "star"
          /\ trace.before[i].collected
          /\ ~platforms[i].collected
    /\ \E i \in StartMarkers(platforms) :
          /\ player.x = platforms[i].x /\ player.y = platforms[i].y
          /\ playerStartPos # [x |-> platforms[i].x, y |-> platforms[i].y]

QualifyingIndices == {i \in 1..Len(trace.before) : Qualifies(i)}

(* The index of the first entity that qualifies in the frame, 0 if none.   *)
FirstQualifyingIndex ==
    IF QualifyingIndices = {} THEN 0
    ELSE CHOOSE i \in QualifyingIndices : \A j \in QualifyingIndices : i <= j

(* C12: in every frame the solid or trampoline whose response is invoked   *)
(* is the first of the live sequence that the falling character stands on, *)
(* if there is one, and no other entity: the character is left as that     *)
(* response leaves it, and no other trampoline shows the bounce animation  *)
(* that its response starts.                                               *)
C12_FirstMatchOnly ==
    lastOp.op = "tick" =>
        /\ trace.hit = FirstQualifyingIndex
        /\ \A j \in 1..Len(trace.before) :
              (j # trace.hit /\ platformType(trace.before[j]) = "trampoline")
              => platforms[j].squashed = trace.before[j].squashed
        /\ trace.hit > 0 =>
              /\ RestsOn(trace.hit)
              /\ platformType(trace.before[trace.hit]) = "trampoline"
                 => /\ platforms[trace.hit].squashed
                    /\ trace.coll.vy = trace.before[trace.hit].bounceForce
              /\ platformType(trace.before[trace.hit]) = "solid"
                 => trace.coll.vy = 0

(* A frame in which a solid and, later in the sequence, a solid with a     *)
(* nearer surface and a trampoline qualify, and only the first responds.   *)
C12_Witness ==
    /\ lastOp.op = "tick" /\ trace.hit > 0
    /\ \E j, k \in QualifyingIndices :
          /\ trace.hit < j /\ trace.hit < k
          /\ platformType(trace.before[j]) = "solid"
          /\ GetBounds(trace.before[j]).y > GetBounds(trace.before[trace.hit]).y
          /\ platformType(trace.before[k]) = "trampoline"
          /\ ~platforms[k].squashed

(* Star i is uncollected and overlaps the character when the collision     *)
(* loop of the frame starts.                                               *)
StarInReach(i) ==
    /\ platformType(trace.before[i]) = "star"
    /\ ~trace.before[i].collected
    /\ isIntersecting(trace.int, GetBounds(trace.before[i]))

(* C13, as stated: in every frame every uncollected star that overlaps the *)
(* character is collected, wherever it sits in the sequence.               *)
C13_StarsCollected_AsStated ==
    lastOp.op = "tick" =>
        \A i \in 1..Len(trace.before) :
            StarInReach(i) => platforms[i].collected

(* C13, amended: the same for the stars that no solid or trampoline on     *)
(* which the falling character stands precedes in the sequence.            *)
C13_StarsCollected ==
    lastOp.op = "tick" =>
        \A i \in 1..Len(trace.before) :
            (StarInReach(i) /\ \A j \in 1..(i - 1) : ~Qualifies(j))
            => platforms[i].collected

(* A frame that collects a star which sits behind a solid in the sequence. *)
C13_Witness ==
    /\ lastOp.op = "tick"
    /\ \E i \in 1..Len(trace.before) :
          /\ StarInReach(i) /\ platforms[i].collected
          /\ \E j \in 1..(i - 1) : platformType(trace.before[j]) = "solid"

(* The live sequence is the demonstration level: three trampolines, three  *)
(* solids and two stars, in this order.                                    *)
IsDemoLevel(plats) ==
    /\ Len(plats) = 8
    /\ \A i \in 1..3 : platformType(plats[i]) = "trampoline"
    /\ \A i \in 4..6 : platformType(plats[i]) = "solid"
    /\ \A i \in 7..8 : platformType(plats[i]) = "star"

(* 'Demo' is stored with the eight records of the demonstration level.     *)
DemoPersisted(saved) ==
    /\ LevelIndex(saved, "Demo") > 0
    /\ Len(saved[LevelIndex(saved, "Demo")].platforms) = 8

LevelNames(saved) == {saved[k].name : k \in 1..Len(saved)}

(* C14, as stated: whatever the store holds at startup, the live sequence  *)
(* is non-empty after loadInitialLevel; when the store is empty the demo   *)
(* level is live, stored as 'Demo', and 'Demo' is the current and the      *)
(* last-used level.                                                        *)
C14_Bootstrap_AsStated ==
    [][ lastOp'.op = "loadInitialLevel"
        => /\ Len(platforms') > 0
           /\ levels = << >>
              => /\ IsDemoLevel(platforms')
                 /\ DemoPersisted(levels')
                 /\ currentLevelName' = "Demo"
                 /\ lastLevel' = "Demo" ]_vars

(* C14, amended: when no stored level can be listed at startup, the demo   *)
(* level is live and 'Demo' the current level after loadInitialLevel; it   *)
(* is stored as 'Demo' if the storage accepts the write of the levels, and *)
(* is the last-used level if the storage accepts the write of that slot.   *)
(* When a level is listed, the last-used level if its slot is read and it  *)
(* is listed, else the first one, is loaded, and the live sequence is      *)
(* non-empty exactly when that level holds a record of a known type.       *)
C14_Bootstrap ==
    [][ lastOp'.op = "loadInitialLevel"
        => IF levels = << >> \/ ~lastOp'.io.read
           THEN /\ IsDemoLevel(platforms')
                /\ currentLevelName' = "Demo"
                /\ lastOp'.io.write => DemoPersisted(levels')
                /\ lastOp'.io.last => lastLevel' = "Demo"
           ELSE LET chosen == IF lastOp'.io.readLast
                                 /\ lastLevel \in LevelNames(levels)
                              THEN lastLevel ELSE levels[1].name
                    record == levels[LevelIndex(levels, chosen)]
                IN  /\ currentLevelName' = chosen
                    /\ Len(platforms') > 0
                       <=> (\E k \in 1..Len(record.platforms) :
                               IsKnown(record.platforms[k])) ]_vars

(* The session has started from an empty store with the demo level live,   *)
(* stored and recorded as last used.                                       *)
C14_Witness ==
    /\ lastOp.op = "loadInitialLevel" /\ lastOp.ok
    /\ IsDemoLevel(platforms)
    /\ DemoPersisted(levels) /\ Len(levels) = 1
    /\ currentLevelName = "Demo" /\ lastLevel = "Demo"

StoreOps == {"saveLevel", "saveButton", "saveAs", "loadLevel", "deletLevel"}

(* C15: a save, save-as, load or delete that fails leaves the live         *)
(* sequence, the persisted mapping, the recorded start position, the       *)
(* current-level name and the last-used slot as they were.                 *)
C15_FailureIsNoOp ==
    [][ (lastOp'.op \in StoreOps /\ ~lastOp'.ok)
        => UNCHANGED <<platforms, levels, playerStartPos, currentLevelName,
                       lastLevel>> ]_vars

(* The key is down at this frame and was up at the previous one.           *)
NewlyDown(code) == code \in keys /\ code \notin lastKeys

(* The sequence is plats with one entity of the type appended.             *)
Appended(plats, after, type) ==
    /\ Len(after) = Len(plats) + 1
    /\ SubSeq(after, 1, Len(plats)) = plats
    /\ platformType(after[Len(after)]) = type

(* C16, as stated: when the key of a one-shot command is released, the     *)
(* command has fired exactly once since the key went down.                 *)
C16_OneShot_AsStated ==
    [][ (lastOp'.op = "keyup" /\ lastOp'.name \in OneShotKeys)
        => fires[lastOp'.name].fired = 1 ]_vars

(* C16, amended: a one-shot command takes effect in a frame exactly when   *)
(* its key is down at that frame and was up at the previous frame; so a    *)
(* key held across several frames fires once, at the first frame that      *)
(* samples it, and fires at most once per press.                           *)
C16_OneShot ==
    [][ lastOp'.op = "tick"
        => /\ lastKeys' = keys
           /\ (isEnabled' # isEnabled) <=> NewlyDown("KeyE")
           /\ (\A c \in {"KeyT", "KeyP", "KeyR", "KeyC"} : ~NewlyDown(c))
              => trace'.before = platforms
           /\ (NewlyDown("KeyT") /\ \A c \in {"KeyP", "KeyR", "KeyC"} :
                                       ~NewlyDown(c))
              => Appended(platforms, trace'.before, "trampoline")
           /\ (NewlyDown("KeyP") /\ \A c \in {"KeyT", "KeyR", "KeyC"} :
                                       ~NewlyDown(c))
              => Appended(platforms, trace'.before, "solid")
           /\ (NewlyDown("KeyR") /\ \A c \in {"KeyT", "KeyP", "KeyC"} :
                                       ~NewlyDown(c))
              => trace'.before
                    = SubSeq(platforms, 1, Len(platforms) - 1)
           /\ (NewlyDown("KeyC") /\ \A c \in {"KeyT", "KeyP", "KeyR"} :
                                       ~NewlyDown(c))
              => trace'.before \in {platforms, << >>}
           /\ \A c \in DOMAIN fires' : fires'[c].fired <= 1 ]_vars

(* A one-shot key that two frames have sampled since it went down, its     *)
(* command having taken effect once.                                       *)
C16_Witness ==
    /\ lastOp.op = "tick"
    /\ "KeyT" \in DOMAIN fires
    /\ fires["KeyT"] = [frames |-> 2, fired |-> 1]
    /\ Len(platforms) > 0
    /\ platformType(platforms[Len(platforms)]) = "trampoline"

JumpKeys == {"KeyW", "ArrowUp", "Space"}

(* C17: in a frame with a jump key down, if onGround holds when the input  *)
(* is handled, integration starts from vy = jumpForce with onGround        *)
(* cleared; if it does not hold, or no jump key is down, integration       *)
(* starts from the vy and the onGround the frame began with.               *)
C17_JumpOnlyOnGround ==
    [][ lastOp'.op = "tick"
        => IF keys \cap JumpKeys # {} /\ player.onGround
           THEN /\ trace'.int.vy = jumpForce + gravity
                /\ ~trace'.int.onGround
           ELSE /\ trace'.int.vy = player.vy + gravity
                /\ trace'.int.onGround = player.onGround ]_vars

(* A frame that honoured a jump from a platform: the character has left    *)
(* with the jump impulse.                                                  *)
C17_Witness ==
    /\ lastOp.op = "tick" /\ trace.jumped
    /\ "Space" \in lastKeys
    /\ trace.int.vy = jumpForce + gravity
    /\ ~player.onGround /\ player.vy < 0

(* The records of the mapping other than the one stored under the name.    *)
OtherRecords(saved, levelName) ==
    SelectSeq(saved, LAMBDA r : r.name # levelName)

IsSnapshot(records, plats) ==
    /\ Len(records) = Len(plats)
    /\ \A k \in 1..Len(plats) :
          /\ records[k].type = plats[k].cls
          /\ records[k].x = plats[k].x /\ records[k].y = plats[k].y
          /\ records[k].width = GetBounds(plats[k]).width
          /\ records[k].height = GetBounds(plats[k]).height
          /\ records[k].bounceForce = plats[k].bounceForce
          /\ records[k].collected = plats[k].collected

SaveSucceeds ==
    /\ lastOp'.op = "saveLevel"
    /\ lastOp'.ok

(* Exactly one record is stored under the name, a snapshot of the live     *)
(* sequence, and the live sequence is as it was.                           *)
SavedSnapshot(n) ==
    /\ platforms' = platforms
    /\ Len(SelectSeq(levels', LAMBDA r : r.name = n)) = 1
    /\ IsSnapshot(levels'[LevelIndex(levels', n)].platforms, platforms)

LandsOnTop(i) ==
    LET b == GetBounds(trace.before[i])
        left == trace.int.x - playerSize \div 2
        bottom == trace.int.y + playerSize \div 2
    IN  /\ trace.int.vy > 0
        /\ left < b.x + b.width /\ left + playerSize > b.x
        /\ bottom > b.y /\ bottom < b.y + b.height

(* C20: in the collision loop of a frame the character changes only by the *)
(* response of a solid or trampoline on whose top it lands; with no such   *)
(* response, whatever stars and start markers it overlaps, it is left as   *)
(* integration left it.                                                    *)
C20_OnlyLandingResponds ==
    lastOp.op = "tick" =>
        /\ trace.hit > 0
           => /\ platformType(trace.before[trace.hit])
                    \in {"solid", "trampoline"}
              /\ LandsOnTop(trace.hit)
        /\ trace.hit = 0 => trace.coll = trace.int
        /\ trace.coll # trace.int => trace.hit > 0

(* A frame without a response in which the rising character has its bottom *)
(* edge inside a solid it overlaps, and overlaps a star.                   *)
C20_Witness ==
    /\ lastOp.op = "tick" /\ trace.hit = 0
    /\ trace.int.vy <= 0
    /\ \E i \in 1..Len(trace.before) :
          /\ platformType(trace.before[i]) = "solid"
          /\ isStandingOn(trace.int, GetBounds(trace.before[i]))
    /\ \E i \in 1..Len(trace.before) :
          /\ platformType(trace.before[i]) = "star"
          /\ isIntersecting(trace.int, GetBounds(trace.before[i]))

----------------------------------------------------------------------------
(* C21.  Ground-plane clamp: at the end of every tick the character's      *)
(* bottom edge is at or above the ground line, and whenever the bottom     *)
(* edge reaches or passes the ground line after integration and the entity *)
(* collisions, the tick ends with the bottom edge on the ground line,      *)
(* vy = 0 and onGround = TRUE, whatever an entity did earlier in the tick. *)
groundLine == screenHeight - groundHeight

C21_GroundClamp ==
    lastOp.op = "tick"
    => /\ player.y + playerSize \div 2 <= groundLine
       /\ trace.coll.y + playerSize \div 2 >= groundLine
          => /\ player.y + playerSize \div 2 = groundLine
             /\ player.vy = 0
             /\ player.onGround

(* A trampoline bounced the character in a tick that ended on the ground.  *)
C21_Witness ==
    /\ lastOp.op = "tick"
    /\ trace.hit > 0
    /\ trace.before[trace.hit].cls = "Trampoline"
    /\ trace.coll.vy < 0
    /\ trace.coll.y + playerSize \div 2 >= groundLine
    /\ player.vy = 0 /\ player.onGround

----------------------------------------------------------------------------
(* C22.  Horizontal clamp: at the end of every tick without a world reset  *)
(* the character's box lies within the horizontal world bounds; an x out   *)
(* of range is clamped to the nearer bound, an x in range is kept, and vx  *)
(* is left as the input handling and the entity collisions set it.         *)
leftBound == playerSize \div 2

rightBound == screenWidth - playerSize \div 2

C22_HorizontalClamp ==
    lastOp.op = "tick" /\ ~trace.reset
    => /\ leftBound <= player.x /\ player.x <= rightBound
       /\ trace.coll.x < leftBound => player.x = leftBound
       /\ trace.coll.x > rightBound => player.x = rightBound
       /\ leftBound <= trace.coll.x /\ trace.coll.x <= rightBound
          => player.x = trace.coll.x
       /\ player.vx = trace.coll.vx

(* A tick clamped a character that was moving out of the world's left      *)
(* edge.                                                                   *)
C22_Witness ==
    /\ lastOp.op = "tick" /\ ~trace.reset
    /\ trace.coll.x < leftBound
    /\ player.x = leftBound
    /\ player.vx < 0

----------------------------------------------------------------------------
(* C23.  After every trampoline response the trampoline is squashed, and   *)
(* once its timer has fired it is back at its original scale: whenever a   *)
(* timer is pending, for a live trampoline or for one that was erased,     *)
(* cleared or replaced by a load while squashed, eventually none is        *)
(* pending and every live trampoline is at its original scale; a response  *)
(* of a trampoline that is still squashed squashes it again; and a pending *)
(* timer never disables the tick.                                          *)
TimerPending == Squashed(platforms) # {} \/ timers > 0

TrampolineHit ==
    /\ lastOp.op = "tick"
    /\ trace.hit > 0
    /\ trace.before[trace.hit].cls = "Trampoline"

C23_SquashReverts ==
    /\ [](TrampolineHit => platforms[trace.hit].squashed)
    /\ [](lastOp.op = "timeout" /\ lastOp.name = "live"
            => \E k \in 1..Len(platforms) :
                  platforms[k].cls = "Trampoline" /\ ~platforms[k].squashed)
    /\ TimerPending ~> ~TimerPending
    /\ [](TimerPending /\ booted /\ budget.frames > 0 => ENABLED Tick)

(* A trampoline that was still squashed from an earlier bounce bounced the *)
(* character again.                                                        *)
C23_Witness ==
    /\ TrampolineHit
    /\ trace.before[trace.hit].squashed
    /\ platforms[trace.hit].squashed

(* The timer of a live trampoline has fired and no timer is left.          *)
C23_RevertedWitness ==
    /\ lastOp.op = "timeout" /\ lastOp.name = "live"
    /\ ~TimerPending

(* The timer of a trampoline that left the live sequence while squashed    *)
(* has fired.                                                              *)
C23_DetachedWitness ==
    /\ lastOp.op = "timeout" /\ lastOp.name = "detached"
    /\ ~TimerPending

----------------------------------------------------------------------------
(* C24.  The squash animation is purely visual: from every state, the next *)
(* frame's collision loop picks the same entity and leaves the character   *)
(* in the same state, and an erase click removes the same entity, as from  *)
(* the state in which every trampoline is at its original scale.           *)
Unsquash(plats) == [k \in 1..Len(plats) |-> [plats[k] EXCEPT !.squashed = FALSE]]

C24_AnimationIsVisual ==
    LET int     == Integrate(handleInput(player, keys))
        actual  == checkPlatformCollisions(int, platforms)
        visual  == checkPlatformCollisions(int, Unsquash(platforms))
    IN  /\ actual.hit = visual.hit
        /\ actual.player = visual.player
        /\ \A at \in ClickPoints :
              EraseIndex(platforms, at.x, at.y)
                  = EraseIndex(Unsquash(platforms), at.x, at.y)

----------------------------------------------------------------------------
(* C25.  The fall-off reset is never triggered by a tick: the ground clamp *)
(* runs before the fall-off test, so at that test the character's y is at  *)
(* most the ground rest position, which is less than the fall-off          *)
(* threshold, and no frame resets the world; and a step other than a call  *)
(* of resetGame leaves a collected star that stays in the live sequence    *)
(* collected.                                                              *)
Replaced(entry) ==
    entry.op \in {"loadLevel", "loadInitialLevel"} /\ entry.ok

C25_NoFallOffReset ==
    /\ [](groundY < screenHeight + fallMargin)
    /\ [](lastOp.op = "tick" => ~trace.reset /\ player.y <= groundY)
    /\ [][ lastOp'.op # "resetGame" /\ ~Replaced(lastOp')
           => \A i \in 1..Len(platforms), j \in 1..Len(platforms') :
                 /\ refs[i] = refs'[j]
                 /\ platforms[i].cls = "Star"
                 /\ platforms[i].collected
                 => platforms'[j].collected ]_vars

(* A frame that the ground clamp ended on the ground line, without a       *)
(* reset, with a star that was collected before the frame still collected. *)
C25_Witness ==
    /\ lastOp.op = "tick"
    /\ trace.coll.y >= groundY
    /\ ~trace.reset
    /\ player.y = groundY
    /\ \E k \in 1..Len(platforms) :
          /\ platforms[k].cls = "Star"
          /\ platforms[k].collected
          /\ trace.before[k].collected

----------------------------------------------------------------------------
(* C26.  onGround changes from TRUE to FALSE only in a frame whose jump    *)
(* request is honored or in a world reset; within a frame neither the      *)
(* integration nor the collision loop (a trampoline response included) nor *)
(* the clamps clear it, and no key event, click, timer or store operation  *)
(* changes it, so it stays TRUE while the character is airborne.           *)
Airborne ==
    /\ player.y + playerSize \div 2 < groundLine
    /\ \A k \in 1..Len(platforms) :
          platformType(platforms[k]) \in {"solid", "trampoline"}
          => LET b == GetBounds(platforms[k])
                 left == player.x - playerSize \div 2
             IN  ~(/\ left < b.x + b.width /\ left + playerSize > b.x
                   /\ player.y + playerSize \div 2 = b.y)

C26_OnGroundSticks ==
    /\ [][ player.onGround /\ ~player'.onGround
           => \/ lastOp'.op = "tick" /\ trace'.jumped
              \/ lastOp'.op = "resetGame" ]_vars
    /\ [][ lastOp'.op = "tick" /\ ~trace'.jumped
           => /\ trace'.int.onGround = player.onGround
              /\ trace'.int.onGround => trace'.coll.onGround
              /\ trace'.coll.onGround => player'.onGround ]_vars
    /\ [][ lastOp'.op \notin {"tick", "resetGame"}
           => player'.onGround = player.onGround ]_vars

(* After a frame that removed every platform the character is in the air   *)
(* with onGround TRUE, and the jump test of handleInput accepts a jump.     *)
C26_Witness ==
    /\ lastOp.op = "tick"
    /\ Airborne
    /\ player.onGround
    /\ player.vy > 0
    /\ JumpHonored(player, {"Space"})
    /\ handleInput(player, {"Space"}).vy = jumpForce

(* A trampoline bounced a character whose onGround was TRUE and left it    *)
(* TRUE.                                                                   *)
C26_BounceWitness ==
    /\ TrampolineHit
    /\ trace.int.onGround
    /\ trace.coll.vy < 0
    /\ trace.coll.onGround

----------------------------------------------------------------------------
(* C27.  Collision is tested against the position after integration only:  *)
(* in every frame in which the character's bottom edge moves from at or    *)
(* above a solid's or trampoline's top edge to at or below that entity's   *)
(* bottom edge, the standing-on test is false for that entity and it does  *)
(* not respond, whether or not the horizontal extents overlap.             *)
Overlaps(p, b) ==
    /\ p.x - playerSize \div 2 < b.x + b.width
    /\ p.x + playerSize \div 2 > b.x

PassedThrough(yBefore, i) ==
    LET b == GetBounds(trace.before[i])
    IN  /\ platformType(trace.before[i]) \in {"solid", "trampoline"}
        /\ yBefore + playerSize \div 2 <= b.y
        /\ trace.int.y + playerSize \div 2 >= b.y + b.height

C27_Tunnelling ==
    [][ lastOp'.op = "tick"
        => \A i \in 1..Len(trace'.before) :
              LET b == GetBounds(trace'.before[i])
              IN  (/\ platformType(trace'.before[i]) \in {"solid", "trampoline"}
                   /\ player.y + playerSize \div 2 <= b.y
                   /\ trace'.int.y + playerSize \div 2 >= b.y + b.height)
                  => /\ ~isStandingOn(trace'.int, b)
                     /\ trace'.hit # i ]_vars

(* A frame in which the falling character passed through a solid that it   *)
(* overlaps horizontally: its bottom edge was on the solid's top side      *)
(* before the frame's fall and is under the solid after it, and the solid  *)
(* did not respond.                                                        *)
C27_Witness ==
    /\ lastOp.op = "tick"
    /\ \E i \in 1..Len(trace.before) :
          /\ PassedThrough(trace.int.y - trace.int.vy, i)
          /\ Overlaps(trace.int, GetBounds(trace.before[i]))
          /\ trace.int.vy > 0
          /\ trace.hit # i

----------------------------------------------------------------------------
(* C28.  Display and live sequence agree: after startup and after every    *)
(* operation the entities attached to the stage are exactly the objects of *)
(* the live sequence, and no object occurs twice in the live sequence.     *)
C28_StageMatchesLive ==
    /\ Len(refs) = Len(platforms)
    /\ booted => stage = Refs(Display)
    /\ \A i, j \in 1..Len(refs) : refs[i] = refs[j] => i = j

(* An editor click replaced the start marker of the loaded level: the      *)
(* marker it evicted is detached and the new one attached.                 *)
C28_Witness ==
    /\ lastOp.op = "click" /\ lastOp.name = "playerStart"
    /\ CountPlayerStarts(platforms) = 1
    /\ Len(platforms) > 1
    /\ stage = Refs(Display)
    /\ \E k \in 1..(Len(platforms) - 1) :
          platforms[k].cls # "PlayerStart"
    /\ platforms[Len(platforms)].cls = "PlayerStart"
    /\ platforms[Len(platforms)].x = lastOp.at.x

----------------------------------------------------------------------------
(* C29.  The level's recorded start position changes only in a successful  *)
(* loadLevel (at startup or later): every other operation leaves it, and   *)
(* every record a step writes to the store carries the start position of   *)
(* before that step, whatever the position of the start marker.            *)
StoredRecords(saved) == {saved[k] : k \in 1..Len(saved)}

C29_StartPosFrame ==
    /\ [][ playerStartPos' # playerStartPos
           => lastOp'.op \in {"loadLevel", "loadInitialLevel"} /\ lastOp'.ok
         ]_vars
    /\ [][ \A record \in StoredRecords(levels') \ StoredRecords(levels) :
              record.playerStart = playerStartPos ]_vars
    /\ [][ lastOp'.op \in {"saveLevel", "saveButton", "saveAs"} /\ lastOp'.ok
           => /\ LevelIndex(levels', currentLevelName') > 0
              /\ levels'[LevelIndex(levels', currentLevelName')].playerStart
                     = playerStartPos
              /\ playerStartPos' = playerStartPos ]_vars

(* A successful save of a level whose start marker is elsewhere than the   *)
(* recorded start position: the record holds the recorded position.        *)
C29_Witness ==
    /\ lastOp.op = "saveLevel" /\ lastOp.ok
    /\ FirstPlayerStart(platforms) > 0
    /\ platforms[FirstPlayerStart(platforms)].x # playerStartPos.x
    /\ LevelIndex(levels, lastOp.name) > 0
    /\ levels[LevelIndex(levels, lastOp.name)].playerStart = playerStartPos

----------------------------------------------------------------------------
(* The level loadInitialLevel selects from a listed store: the one the     *)
(* last-used slot names when the slot is read and the name is listed, else *)
(* the first listed one.                                                   *)
SelectedAtStartup ==
    IF lastOp'.io.readLast /\ lastLevel \in LevelNames(levels)
    THEN lastLevel ELSE levels[1].name

StartupLoads(levelName) ==
    /\ levelName \in LevelNames(levels)
    /\ lastOp'.ok
    /\ currentLevelName' = levelName
    /\ LoadedExactly(levels[LevelIndex(levels, levelName)].platforms)
    /\ levels' = levels

C30_FallbackWitness ==
    /\ lastOp.op = "loadInitialLevel" /\ lastOp.ok
    /\ lastOp.io.readLast /\ ~lastOp.io.last
    /\ lastLevel = "Demo" /\ "Demo" \notin LevelNames(levels)
    /\ currentLevelName = levels[1].name

=============================================================================
